---- MODULE Spec2Model ----
(***************************************************************************)
(* A model of the Rust async HTTP server of src/src/main.rs: the accept    *)
(* loop of main, one spawned task per connection running hyper's HTTP/1    *)
(* connection driver over handle_request, the shared ServerStats counter,  *)
(* the router and the five handlers, and json_response.                    *)
(*                                                                         *)
(* Texts the program slices or concatenates (paths, messages, JSON member  *)
(* texts) are sequences of one-character strings, so that a slice is a     *)
(* SubSeq and an escape is a real rewriting of the characters.             *)
(***************************************************************************)
EXTENDS Integers, Sequences, FiniteSets, TLC

\* ------------------------------------------------------------------ bounds

\* Connections the listener may accept in one run.
MaxConns == 2
\* Requests the clients send in one run, over all connections.
MaxRequests == 2
\* Clock ticks that may elapse in one run.
MaxTicks == 1
\* Clock ticks per second: Duration::as_secs truncates to whole seconds.
TicksPerSec == 1

Conns == 1..MaxConns

\* ------------------------------------------------------------------ texts

RootPath == <<"/">>
HealthPath == <<"/", "h", "e", "a", "l", "t", "h">>
StatsPath == <<"/", "s", "t", "a", "t", "s">>
EchoPrefix == <<"/", "e", "c", "h", "o", "/">>
\* The index the echo handler's argument starts after: &path[6..].
EchoPrefixLen == 6

WelcomeMessage ==
  <<"W", "e", "l", "c", "o", "m", "e", " ", "t", "o", " ", "R", "u", "s", "t",
    " ", "H", "T", "T", "P", " ", "S", "e", "r", "v", "e", "r", "!">>
HealthyMessage ==
  <<"S", "e", "r", "v", "e", "r", " ", "i", "s", " ", "h", "e", "a", "l", "t",
    "h", "y">>
NotFoundMessage == <<"N", "o", "t", " ", "F", "o", "u", "n", "d">>
EchoLabel == <<"E", "c", "h", "o", ":", " ">>
ServerName ==
  <<"r", "u", "s", "t", "-", "h", "t", "t", "p", "-", "s", "e", "r", "v", "e",
    "r", "/", "1", ".", "0">>
JsonContentType ==
  <<"a", "p", "p", "l", "i", "c", "a", "t", "i", "o", "n", "/", "j", "s", "o",
    "n">>

StatusOk == 200
StatusNotFound == 404

\* ------------------------------------------------------- JSON serialisation

Quote == "\""
Backslash == "\\"
DigitChars == <<"0", "1", "2", "3", "4", "5", "6", "7", "8", "9">>

\* serde_json's string escaping, for the characters a URI path can hold:
\* a quote and a backslash each get a backslash in front.
RECURSIVE JsonEscape(_)
JsonEscape(s) ==
  IF s = <<>> THEN <<>>
  ELSE IF Head(s) = Quote \/ Head(s) = Backslash
       THEN <<Backslash, Head(s)>> \o JsonEscape(Tail(s))
       ELSE <<Head(s)>> \o JsonEscape(Tail(s))

\* A String field as JSON text: the escaped characters between two quotes.
JsonString(s) == <<Quote>> \o JsonEscape(s) \o <<Quote>>

\* A u64 field as JSON text: its decimal digits, no sign, no leading zero.
RECURSIVE JsonU64(_)
JsonU64(n) ==
  IF n < 10 THEN <<DigitChars[n + 1]>>
  ELSE Append(JsonU64(n \div 10), DigitChars[(n % 10) + 1])

\* What a JSON parser reads back from the text of a string member.
RECURSIVE JsonUnescape(_)
JsonUnescape(t) ==
  IF t = <<>> THEN <<>>
  ELSE IF Head(t) = Backslash /\ Len(t) >= 2
       THEN <<t[2]>> \o JsonUnescape(Tail(Tail(t)))
       ELSE <<Head(t)>> \o JsonUnescape(Tail(t))

ParseJsonString(t) == JsonUnescape(SubSeq(t, 2, Len(t) - 1))

DigitValue(ch) == CHOOSE d \in 0..9 : DigitChars[d + 1] = ch

\* What a JSON parser reads back from the text of an unsigned number member.
RECURSIVE ParseJsonU64(_)
ParseJsonU64(t) ==
  IF Len(t) = 1 THEN DigitValue(t[1])
  ELSE 10 * ParseJsonU64(SubSeq(t, 1, Len(t) - 1)) + DigitValue(t[Len(t)])

\* The text of member `name` of a serialised body (a sequence of members in
\* the struct's field order).
HasMember(body, name) == \E i \in 1..Len(body) : body[i].name = name
Member(body, name) ==
  body[CHOOSE i \in 1..Len(body) : body[i].name = name].text

\* --------------------------------------------------------- response bodies

\* The rendering of an instant by to_rfc3339, abstracted to the decimal tick
\* count: distinct instants give distinct texts.
Rfc3339(t) == JsonU64(t)

\* serde_json::to_string on JsonResponse { message, timestamp, server }.
SerializeJsonResponse(r) ==
  << [name |-> "message", text |-> JsonString(r.message)],
     [name |-> "timestamp", text |-> JsonString(r.timestamp)],
     [name |-> "server", text |-> JsonString(r.server)] >>

\* requests_per_second as the exact ratio num/den of the two u64 values.
Ratio(num, den) == [num |-> num, den |-> den]

\* A serialisation that writes the two counters under each other's names.
SerializeStatsResponseSwapped(r) ==
  << [name |-> "total_requests", text |-> JsonU64(r.uptime_seconds)],
     [name |-> "uptime_seconds", text |-> JsonU64(r.total_requests)],
     [name |-> "requests_per_second", text |-> r.requests_per_second] >>

\* serde_json::to_string on StatsResponse { total_requests, uptime_seconds,
\* requests_per_second }.
SerializeStatsResponse(r) ==
  << [name |-> "total_requests", text |-> JsonU64(r.total_requests)],
     [name |-> "uptime_seconds", text |-> JsonU64(r.uptime_seconds)],
     [name |-> "requests_per_second", text |-> r.requests_per_second] >>

\* A response builder that sets the content type only.
json_response_no_server(status, body) ==
  [ status |-> status,
    headers |-> << <<"Content-Type", JsonContentType>> >>,
    body |-> body ]

\* json_response: the status, the two headers, and the serialised body.
json_response(status, body) ==
  [ status |-> status,
    headers |-> << <<"Content-Type", JsonContentType>>,
                   <<"Server", ServerName>> >>,
    body |-> body ]

\* ------------------------------------------------------------------ router

\* str::starts_with on byte strings.
starts_with(path, prefix) ==
  Len(path) >= Len(prefix) /\ SubSeq(path, 1, Len(prefix)) = prefix

\* A root rule that matches a prefix instead of the whole path.
RuleRootPrefix(method, path) == method = "GET" /\ starts_with(path, RootPath)

\* The four match arms of handle_request, as predicates.
RuleRoot(method, path) == method = "GET" /\ path = RootPath
RuleHealth(method, path) == method = "GET" /\ path = HealthPath
RuleStats(method, path) == method = "GET" /\ path = StatsPath
RuleEcho(method, path) == method = "GET" /\ starts_with(path, EchoPrefix)

\* A router that matches on the path alone, whatever the method.
RouterAnyMethod(method, path) ==
  IF path = RootPath THEN "root"
  ELSE IF path = HealthPath THEN "health"
  ELSE IF path = StatsPath THEN "stats"
  ELSE IF starts_with(path, EchoPrefix) THEN "echo"
  ELSE "not_found"

\* The match of handle_request: the arms are tried top to bottom and the first
\* that matches names the handler.
Router(method, path) ==
  IF RuleRoot(method, path) THEN "root"
  ELSE IF RuleHealth(method, path) THEN "health"
  ELSE IF RuleStats(method, path) THEN "stats"
  ELSE IF RuleEcho(method, path) THEN "echo"
  ELSE "not_found"

\* A slice that starts one byte early.
EchoArgOffByOne(path) == SubSeq(path, EchoPrefixLen, Len(path))

\* &path[6..]: the bytes of the path after its first six.
EchoArg(path) == SubSeq(path, EchoPrefixLen + 1, Len(path))

\* ---------------------------------------------------------------- handlers
\* `t` is the reading of Local::now() the handler takes.

handle_root(t) ==
  json_response(StatusOk,
    SerializeJsonResponse([message |-> WelcomeMessage,
                           timestamp |-> Rfc3339(t),
                           server |-> ServerName]))

handle_health(t) ==
  json_response(StatusOk,
    SerializeJsonResponse([message |-> HealthyMessage,
                           timestamp |-> Rfc3339(t),
                           server |-> ServerName]))

\* A stats handler that divides whatever the uptime is.
handle_stats_unguarded(uptime, total) ==
  json_response(StatusOk,
    SerializeStatsResponse([total_requests |-> total,
                            uptime_seconds |-> uptime,
                            requests_per_second |-> Ratio(total, uptime)]))

\* handle_stats after its two reads: the uptime and the counter's value.
handle_stats(uptime, total) ==
  LET rps == IF uptime > 0 THEN Ratio(total, uptime) ELSE Ratio(0, 1)
  IN json_response(StatusOk,
       SerializeStatsResponse([total_requests |-> total,
                               uptime_seconds |-> uptime,
                               requests_per_second |-> rps]))

handle_echo(message, t) ==
  json_response(StatusOk,
    SerializeJsonResponse([message |-> EchoLabel \o message,
                           timestamp |-> Rfc3339(t),
                           server |-> ServerName]))

\* A not-found handler that answers with status 200.
handle_not_found_ok(t) ==
  json_response(StatusOk,
    SerializeJsonResponse([message |-> NotFoundMessage,
                           timestamp |-> Rfc3339(t),
                           server |-> ServerName]))

handle_not_found(t) ==
  json_response(StatusNotFound,
    SerializeJsonResponse([message |-> NotFoundMessage,
                           timestamp |-> Rfc3339(t),
                           server |-> ServerName]))

\* ------------------------------------------------------------------- state

VARIABLES
  total_requests,  \* ServerStats.total_requests, the one shared AtomicU64
  start_time,      \* ServerStats.start_time, in clock ticks
  now,             \* the clock's last reading, in ticks
  acceptor,        \* main's loop: "accepting", or "exited" once main returned
  connState,       \* per connection: "none", "open", "closed", "failed", "aborted"
  received,        \* per connection: the requests the peer sent, in order
  dispatched,      \* per connection: indices into received, in the order they
                   \* were handed to handle_request
  task,            \* per connection: the handle_request call in progress
  written,         \* per connection: the responses written, in order
  printed,         \* per connection: the "Request #n" lines handle_request printed
  stderr           \* the error reports, in order

vars ==
  << total_requests, start_time, now, acceptor, connState, received,
     dispatched, task, written, printed, stderr >>

NoResponse == [status |-> 0, headers |-> <<>>, body |-> <<>>]

\* No handle_request call in progress on the connection. Of a call in
\* progress: where it is, the request it serves, the value its fetch_add left
\* in the counter (which the code discards), the handler selected, the uptime
\* handle_stats has read, and the response built.
IdleTask ==
  [pc |-> "idle", idx |-> 0, ticket |-> 0, handler |-> "none", uptime |-> 0,
   response |-> NoResponse]

Request(method, path) == [method |-> method, path |-> path]

\* The requests the clients of Spec send: one that is routed to the handler
\* reading the statistics, one that matches no route.
ClientRequests ==
  { Request("GET", StatsPath),
    Request("POST", StatsPath) }

RECURSIVE SumOver(_, _)
SumOver(f, S) ==
  IF S = {} THEN 0
  ELSE LET x == CHOOSE y \in S : TRUE IN f[x] + SumOver(f, S \ {x})

NumReceived == SumOver([c \in Conns |-> Len(received[c])], Conns)
NumDispatched == SumOver([c \in Conns |-> Len(dispatched[c])], Conns)

\* ServerStats::new and the state main's loop starts in.
Init ==
  /\ total_requests = 0
  /\ start_time = 0
  /\ now = 0
  /\ acceptor = "accepting"
  /\ connState = [c \in Conns |-> "none"]
  /\ received = [c \in Conns |-> <<>>]
  /\ dispatched = [c \in Conns |-> <<>>]
  /\ task = [c \in Conns |-> IdleTask]
  /\ written = [c \in Conns |-> <<>>]
  /\ printed = [c \in Conns |-> <<>>]
  /\ stderr = <<>>

\* ------------------------------------------------------------- ServerStats

\* An increment that counts every request twice.
increment_requests_twice(v) == v + 2

\* AtomicU64::fetch_add(1): the new value of the counter. The counter is 64
\* bits wide and wraps at 2^64, which no run of MaxRequests requests reaches.
increment_requests(v) == v + 1

\* AtomicU64::load.
get_total_requests == total_requests

\* Instant::elapsed().as_secs() at clock reading t: the whole seconds since
\* start_time.
get_uptime_seconds(t) == (t - start_time) \div TicksPerSec

\* ------------------------------------------------------------ the acceptor

\* An accept loop that builds a fresh ServerStats for every connection.
AcceptFreshStats(c) ==
  /\ acceptor = "accepting"
  /\ connState[c] = "none"
  /\ \A d \in Conns : d < c => connState[d] # "none"
  /\ connState' = [connState EXCEPT ![c] = "open"]
  /\ total_requests' = 0
  /\ UNCHANGED << start_time, now, acceptor, received, dispatched, task,
                  written, printed, stderr >>

\* An accept loop that serves each connection inline (serve_connection
\* awaited in the loop, no spawn): it accepts again once the last one ended.
AcceptSerial(c) ==
  /\ acceptor = "accepting"
  /\ connState[c] = "none"
  /\ \A d \in Conns : d < c => connState[d] \notin {"none", "open"}
  /\ connState' = [connState EXCEPT ![c] = "open"]
  /\ UNCHANGED << total_requests, start_time, now, acceptor, received,
                  dispatched, task, written, printed, stderr >>

\* listener.accept() yields a stream: main wraps it, clones the stats handle
\* and spawns the connection's task. Connections are numbered in the order
\* they are accepted.
Accept(c) ==
  /\ acceptor = "accepting"
  /\ connState[c] = "none"
  /\ \A d \in Conns : d < c => connState[d] # "none"
  /\ connState' = [connState EXCEPT ![c] = "open"]
  /\ UNCHANGED << total_requests, start_time, now, acceptor, received,
                  dispatched, task, written, printed, stderr >>

\* listener.accept() yields an error: the `?` returns it from main, the
\* process reports it and the runtime shuts down.
AcceptFail ==
  /\ acceptor = "accepting"
  /\ acceptor' = "exited"
  /\ stderr' = Append(stderr, [kind |-> "main", conn |-> 0])
  /\ UNCHANGED << total_requests, start_time, now, connState, received,
                  dispatched, task, written, printed >>

\* The runtime's shutdown, once every poll in progress has returned: each
\* connection's task is dropped where it is suspended, waiting for request
\* bytes or for a write to complete.
Shutdown ==
  /\ acceptor = "exited"
  /\ \E c \in Conns : connState[c] = "open"
  /\ \A c \in Conns : task[c].pc \in {"idle", "respond"}
  /\ connState' = [c \in Conns |->
                     IF connState[c] = "open" THEN "aborted" ELSE connState[c]]
  /\ task' = [c \in Conns |-> IdleTask]
  /\ UNCHANGED << total_requests, start_time, now, acceptor, received,
                  dispatched, written, printed, stderr >>

\* ------------------------------------------------------ a connection's task

\* The peer sends one more request on its connection.
Receive(c, r) ==
  /\ acceptor = "accepting"
  /\ connState[c] = "open"
  /\ NumReceived < MaxRequests
  /\ received' = [received EXCEPT ![c] = Append(@, r)]
  /\ UNCHANGED << total_requests, start_time, now, acceptor, connState,
                  dispatched, task, written, printed, stderr >>

\* A driver that takes the newest request the peer sent instead of the oldest.
NextRequestNewest(c) == Len(received[c])

\* The request http1's connection driver reads next: the oldest one not yet
\* handed to the service.
NextRequest(c) == Len(dispatched[c]) + 1

\* A counter updated by a separate load and store: the increment lands on a
\* value read earlier, and the increments made in between are lost.
DispatchRacy(c) ==
  /\ acceptor = "accepting"
  /\ connState[c] = "open"
  /\ task[c].pc = "idle"
  /\ Len(dispatched[c]) < Len(received[c])
  /\ dispatched' = [dispatched EXCEPT ![c] = Append(@, NextRequest(c))]
  /\ \E stale \in 0..total_requests :
        total_requests' = increment_requests(stale)
  /\ task' = [task EXCEPT ![c] = [IdleTask EXCEPT !.pc = "log",
                                                  !.idx = NextRequest(c),
                                                  !.ticket = total_requests']]
  /\ UNCHANGED << start_time, now, acceptor, connState, received, written,
                  printed, stderr >>

\* serve_connection reads the next request and calls the service_fn closure,
\* which clones the stats handle and calls handle_request; handle_request's
\* first statement (line 65) is stats.increment_requests(). HTTP/1 has one
\* request in progress per connection.
Dispatch(c) ==
  /\ acceptor = "accepting"
  /\ connState[c] = "open"
  /\ task[c].pc = "idle"
  /\ Len(dispatched[c]) < Len(received[c])
  /\ dispatched' = [dispatched EXCEPT ![c] = Append(@, NextRequest(c))]
  /\ total_requests' = increment_requests(total_requests)
  /\ task' = [task EXCEPT ![c] = [IdleTask EXCEPT !.pc = "log",
                                                  !.idx = NextRequest(c),
                                                  !.ticket = total_requests']]
  /\ UNCHANGED << start_time, now, acceptor, connState, received, written,
                  printed, stderr >>

\* A log line that takes its number with another fetch_add.
LogRequestCounts(c) ==
  /\ task[c].pc = "log"
  /\ total_requests' = increment_requests(total_requests)
  /\ printed' = [printed EXCEPT ![c] =
                   Append(@, [idx |-> task[c].idx, n |-> total_requests'])]
  /\ task' = [task EXCEPT ![c].pc = "route"]
  /\ UNCHANGED << start_time, now, acceptor, connState, received, dispatched,
                  written, stderr >>

\* handle_request, lines 67-76: the log line, with a fresh read of the counter.
LogRequest(c) ==
  /\ task[c].pc = "log"
  /\ printed' = [printed EXCEPT ![c] =
                   Append(@, [idx |-> task[c].idx, n |-> get_total_requests])]
  /\ task' = [task EXCEPT ![c].pc = "route"]
  /\ UNCHANGED << total_requests, start_time, now, acceptor, connState,
                  received, dispatched, written, stderr >>

\* The response of the handlers that read no statistics.
HandlerResponse(handler, path, t) ==
  CASE handler = "root" -> handle_root(t)
    [] handler = "health" -> handle_health(t)
    [] handler = "echo" -> handle_echo(EchoArg(path), t)
    [] handler = "not_found" -> handle_not_found(t)

\* handle_request, lines 78-89: the match selects the handler. handle_root,
\* handle_health, handle_echo or handle_not_found builds the response at once
\* and handle_request returns it; handle_stats first reads the uptime (line
\* 112). Either way the handler reads the clock, which shows t: the time of
\* the last reading or a later one.
Route(c, t) ==
  /\ task[c].pc = "route"
  /\ t >= now
  /\ now' = t
  /\ LET req == received[c][task[c].idx]
         handler == Router(req.method, req.path)
     IN IF handler = "stats"
        THEN task' = [task EXCEPT ![c].handler = handler,
                                  ![c].uptime = get_uptime_seconds(t),
                                  ![c].pc = "stats_total"]
        ELSE task' = [task EXCEPT
               ![c].handler = handler,
               ![c].response = HandlerResponse(handler, req.path, t),
               ![c].pc = "respond"]
  /\ UNCHANGED << total_requests, start_time, acceptor, connState,
                  received, dispatched, written, printed, stderr >>

\* A stats handler that reports the requests before its own.
StatsTotalExcludingSelf(c) ==
  /\ task[c].pc = "stats_total"
  /\ task' = [task EXCEPT
       ![c].response = handle_stats(task[c].uptime, get_total_requests - 1),
       ![c].pc = "respond"]
  /\ UNCHANGED << total_requests, start_time, now, acceptor, connState,
                  received, dispatched, written, printed, stderr >>

\* handle_stats, lines 113-125: the counter is read, and the body is built
\* from the two values read.
StatsTotal(c) ==
  /\ task[c].pc = "stats_total"
  /\ task' = [task EXCEPT
       ![c].response = handle_stats(task[c].uptime, get_total_requests),
       ![c].pc = "respond"]
  /\ UNCHANGED << total_requests, start_time, now, acceptor, connState,
                  received, dispatched, written, printed, stderr >>

\* serve_connection writes the response handle_request returned and goes back
\* to reading.
Write(c) ==
  /\ acceptor = "accepting"
  /\ connState[c] = "open"
  /\ task[c].pc = "respond"
  /\ written' = [written EXCEPT ![c] =
                   Append(@, [idx |-> task[c].idx,
                              response |-> task[c].response])]
  /\ task' = [task EXCEPT ![c] = IdleTask]
  /\ UNCHANGED << total_requests, start_time, now, acceptor, connState,
                  received, dispatched, printed, stderr >>

\* A connection served inline, its error returned from main with `?`.
ConnFailPropagates(c) ==
  /\ acceptor = "accepting"
  /\ connState[c] = "open"
  /\ task[c].pc \in {"idle", "respond"}
  /\ connState' = [connState EXCEPT ![c] = "failed"]
  /\ task' = [task EXCEPT ![c] = IdleTask]
  /\ acceptor' = "exited"
  /\ stderr' = Append(stderr, [kind |-> "main", conn |-> c])
  /\ UNCHANGED << total_requests, start_time, now, received, dispatched,
                  written, printed >>

\* serve_connection returns an error (the peer reset the connection, a
\* protocol error, a failed read or write): the task reports it and ends.
ConnFail(c) ==
  /\ acceptor = "accepting"
  /\ connState[c] = "open"
  /\ task[c].pc \in {"idle", "respond"}
  /\ connState' = [connState EXCEPT ![c] = "failed"]
  /\ task' = [task EXCEPT ![c] = IdleTask]
  /\ stderr' = Append(stderr, [kind |-> "serve", conn |-> c])
  /\ UNCHANGED << total_requests, start_time, now, acceptor, received,
                  dispatched, written, printed >>

\* The peer closes the connection and every request it sent has been
\* answered: serve_connection returns Ok and the task ends.
ConnClose(c) ==
  /\ acceptor = "accepting"
  /\ connState[c] = "open"
  /\ task[c].pc = "idle"
  /\ Len(dispatched[c]) = Len(received[c])
  /\ connState' = [connState EXCEPT ![c] = "closed"]
  /\ UNCHANGED << total_requests, start_time, now, acceptor, received,
                  dispatched, task, written, printed, stderr >>

Next ==
  \/ \E c \in Conns : Accept(c)
  \/ AcceptFail
  \/ Shutdown
  \/ \E c \in Conns : \E r \in ClientRequests : Receive(c, r)
  \/ \E c \in Conns : Dispatch(c)
  \/ \E c \in Conns : LogRequest(c)
  \/ \E c \in Conns : \E t \in 0..MaxTicks : Route(c, t)
  \/ \E c \in Conns : StatsTotal(c)
  \/ \E c \in Conns : Write(c)
  \/ \E c \in Conns : ConnFail(c)
  \/ \E c \in Conns : ConnClose(c)

Spec == Init /\ [][Next]_vars

\* ------------------------------------------- the router, request by request

RouteMethods == {"GET", "POST", "HEAD", "DELETE"}

RoutePaths ==
  { RootPath, HealthPath, StatsPath, EchoPrefix,
    <<"/", "e", "c", "h", "o">>,
    <<"/", "e", "c", "h", "o", "/", "h", "e", "l", "l", "o">>,
    <<"/", "e", "c", "h", "o", "/", "%", "2", "0">>,
    <<"/", "e", "c", "h", "o", "/", "\"", "q", "\\">>,
    <<"/", "e", "c", "h", "o", "/", "e", "c", "h", "o", "/">>,
    <<"/", "e", "c", "h", "o", "/", "/">>,
    <<"/", "E", "C", "H", "O", "/", "x">>,
    <<"/", "s", "t", "a", "t", "s", "/">>,
    <<"/", "h", "e", "a", "l", "t", "h", "z">>,
    <<"/", "/">>,
    <<"/", "n", "o", "p", "e">> }

RouteRequests == { Request(m, p) : m \in RouteMethods, p \in RoutePaths }

\* One connection has been accepted and its peer has sent one request, any of
\* RouteRequests.
InitRoute ==
  /\ total_requests = 0
  /\ start_time = 0
  /\ now = 0
  /\ acceptor = "accepting"
  /\ connState = [c \in Conns |-> IF c = 1 THEN "open" ELSE "none"]
  /\ \E r \in RouteRequests :
       received = [c \in Conns |-> IF c = 1 THEN <<r>> ELSE <<>>]
  /\ dispatched = [c \in Conns |-> <<>>]
  /\ task = [c \in Conns |-> IdleTask]
  /\ written = [c \in Conns |-> <<>>]
  /\ printed = [c \in Conns |-> <<>>]
  /\ stderr = <<>>

NextRoute ==
  \/ \E c \in Conns : Dispatch(c)
  \/ \E c \in Conns : LogRequest(c)
  \/ \E c \in Conns : \E t \in 0..MaxTicks : Route(c, t)
  \/ \E c \in Conns : StatsTotal(c)
  \/ \E c \in Conns : Write(c)

SpecRoute == InitRoute /\ [][NextRoute]_vars

\* ------------------------------------------------------------- properties

\* handle_request is running on connection c: called and not yet returned.
InFlight(c) == task[c].pc \in {"log", "route", "stats_total"}

\* Every call of handle_request made so far has returned.
AllCompleted == \A c \in Conns : ~InFlight(c)

\* The calls of handle_request that have returned.
NumCompleted ==
  SumOver([c \in Conns |-> Len(dispatched[c]) - (IF InFlight(c) THEN 1 ELSE 0)],
          Conns)

\* The responses handle_request has returned so far, each with its request.
Built ==
  UNION { { [req |-> received[c][written[c][i].idx],
             response |-> written[c][i].response] : i \in 1..Len(written[c]) }
          \cup (IF task[c].pc = "respond"
                THEN { [req |-> received[c][task[c].idx],
                        response |-> task[c].response] }
                ELSE {}) : c \in Conns }

MessageOf(response) == ParseJsonString(Member(response.body, "message"))

\* C1: whenever every request handed to handle_request has completed, over
\* any number of connections and any interleaving, total_requests equals the
\* number of those requests: no increment is lost, none is applied twice.
C1_NoLostIncrement == AllCompleted => total_requests = NumDispatched

C1_Witness ==
  /\ AllCompleted
  /\ \A c \in {1, 2} : Len(written[c]) >= 1
  /\ total_requests = 2

\* C2: each request handed to handle_request has been counted exactly once,
\* and it is counted while no route is selected and no response is built for
\* it yet, whichever of the five handlers it goes to.
C2_IncrementOnceBeforeRouting ==
  /\ total_requests = NumDispatched
  /\ \A c \in Conns :
       /\ task[c].pc \in {"log", "route"} =>
            /\ task[c].handler = "none"
            /\ task[c].response = NoResponse
            /\ total_requests >= 1
       /\ task[c].handler # "none" => total_requests >= 1

C2_Witness ==
  \E c \in Conns :
    /\ Len(written[c]) = 1
    /\ written[c][1].response.status = StatusNotFound
    /\ total_requests = 1

\* C3: the handler selected for a request is the one the ordered rules name:
\* GET "/" root, GET "/health" health, GET "/stats" stats, GET with prefix
\* "/echo/" echo, anything else not-found; so every other method is not-found
\* and so is GET "/echo".
C3_RouterSelectsByRules ==
  \A c \in Conns :
    task[c].handler # "none" =>
      LET req == received[c][task[c].idx]
          get == req.method = "GET"
          echo == /\ Len(req.path) >= 6
                  /\ \A i \in 1..6 : req.path[i] = EchoPrefix[i]
          h == task[c].handler
      IN /\ (get /\ req.path = <<"/">>) => h = "root"
         /\ (get /\ req.path = HealthPath) => h = "health"
         /\ (get /\ req.path = StatsPath) => h = "stats"
         /\ (get /\ echo) => h = "echo"
         /\ (~get \/ (req.path \notin {<<"/">>, HealthPath, StatsPath} /\ ~echo))
              => h = "not_found"
         /\ (get /\ req.path = <<"/", "e", "c", "h", "o">>) => h = "not_found"

C3_Witness ==
  \E c \in Conns :
    /\ task[c].handler = "not_found"
    /\ received[c][task[c].idx] = Request("POST", EchoPrefix \o <<"/">>)

\* C4: the response to a GET whose path starts with "/echo/" has the message
\* "Echo: " followed by the path without its first six characters, unchanged;
\* for the path "/echo/" the message is "Echo: ".
C4_EchoMessageIsRemainder ==
  \A b \in Built :
    (b.req.method = "GET" /\ starts_with(b.req.path, EchoPrefix)) =>
      /\ HasMember(b.response.body, "message")
      /\ MessageOf(b.response) =
           EchoLabel \o [i \in 1..(Len(b.req.path) - 6) |-> b.req.path[i + 6]]
      /\ b.req.path = EchoPrefix => MessageOf(b.response) = EchoLabel

C4_Witness ==
  \E b \in Built :
    /\ b.req = Request("GET", EchoPrefix)
    /\ MessageOf(b.response) = EchoLabel

\* C5: a response has status 404 and the message "Not Found" exactly when its
\* request matches none of the four GET rules; a request that matches one
\* gets status 200; no other status is produced.
C5_NotFoundIffNoRuleMatches ==
  \A b \in Built :
    LET matches ==
          /\ b.req.method = "GET"
          /\ \/ b.req.path \in {RootPath, HealthPath, StatsPath}
             \/ starts_with(b.req.path, EchoPrefix)
        notFound ==
          /\ b.response.status = 404
          /\ HasMember(b.response.body, "message")
          /\ MessageOf(b.response) = NotFoundMessage
    IN /\ notFound <=> ~matches
       /\ matches => b.response.status = 200
       /\ b.response.status \in {200, 404}

C5_Witness ==
  \E b \in Built :
    /\ b.req = Request("GET", <<"/", "n", "o", "p", "e">>)
    /\ b.response.status = 404
    /\ MessageOf(b.response) = NotFoundMessage

\* C6: when the stats handler reads the counter while no other request is in
\* flight and k requests have completed, the total_requests of its body is
\* k + 1: the request counts itself.
C6_StatsCountsItself ==
  [][\A c \in Conns :
       ( /\ task[c].pc = "stats_total"
         /\ task'[c].pc = "respond"
         /\ \A d \in Conns \ {c} : ~InFlight(d) )
       => ParseJsonU64(Member(task'[c].response.body, "total_requests"))
            = NumCompleted + 1]_vars

C6_Witness ==
  \E c \in Conns :
    /\ task[c].pc = "respond"
    /\ task[c].handler = "stats"
    /\ NumCompleted = 2
    /\ ParseJsonU64(Member(task[c].response.body, "total_requests")) = 2

\* C7: a step in which serving one connection fails changes nothing of any
\* other connection, of the counter or of the accept loop, and a connection
\* with a request waiting while another has failed can still have it
\* dispatched.
C7_ConnFailureIsolated ==
  /\ [][\A c \in Conns :
          (connState[c] = "open" /\ connState'[c] = "failed") =>
            /\ acceptor = "accepting" /\ acceptor' = "accepting"
            /\ total_requests' = total_requests
            /\ \A d \in Conns \ {c} :
                 /\ connState'[d] = connState[d]
                 /\ received'[d] = received[d]
                 /\ dispatched'[d] = dispatched[d]
                 /\ task'[d] = task[d]
                 /\ written'[d] = written[d]
                 /\ printed'[d] = printed[d]]_vars
  /\ [](\A c, d \in Conns :
          ( /\ connState[c] = "failed"
            /\ acceptor = "accepting"
            /\ connState[d] = "open"
            /\ task[d].pc = "idle"
            /\ Len(dispatched[d]) < Len(received[d]) )
          => ENABLED Dispatch(d))

C7_Witness ==
  \E c, d \in Conns :
    /\ connState[c] = "failed"
    /\ connState[d] = "open"
    /\ Len(written[d]) >= 1
    /\ acceptor = "accepting"

AcceptFailed == \E i \in 1..Len(stderr) : stderr[i].kind = "main"

\* C8: after an accept failure has been reported the accept loop is still
\* accepting and no connection has been cut off.
C8_AcceptFailureRecovered ==
  AcceptFailed =>
    /\ acceptor = "accepting"
    /\ \A c \in Conns : connState[c] # "aborted"

\* C9: on each connection the requests are handed to handle_request in the
\* order they were received and the responses are written in that order.
C9_ReceiveOrderKept ==
  \A c \in Conns :
    /\ Len(written[c]) <= Len(dispatched[c])
    /\ Len(dispatched[c]) <= Len(received[c])
    /\ \A i \in 1..Len(dispatched[c]) : dispatched[c][i] = i
    /\ \A i \in 1..Len(written[c]) : written[c][i].idx = i

C9_Witness ==
  \E c \in Conns :
    /\ Len(written[c]) = 2
    /\ received[c][1] # received[c][2]

\* C10: no step decreases total_requests.
C10_CounterNeverDecreases == [][total_requests' >= total_requests]_vars

C10_Witness ==
  /\ total_requests = 2
  /\ \E c \in Conns : connState[c] = "failed"
  /\ \E c \in Conns :
       \E i \in 1..Len(written[c]) : written[c][i].response.status = StatusOk

\* The responses built by handle_stats.
StatsBuilt == { b \in Built : HasMember(b.response.body, "total_requests") }

TotalOf(response) == ParseJsonU64(Member(response.body, "total_requests"))
UptimeOf(response) == ParseJsonU64(Member(response.body, "uptime_seconds"))
RpsOf(response) == Member(response.body, "requests_per_second")

\* C11: in every stats body the requests_per_second is never a division by
\* zero: it is 0 when uptime_seconds is 0, and otherwise the quotient of the
\* body's own total_requests and uptime_seconds.
C11_RpsGuardsZeroUptime ==
  \A b \in StatsBuilt :
    LET rps == RpsOf(b.response)
        total == TotalOf(b.response)
        uptime == UptimeOf(b.response)
    IN /\ rps.den # 0
       /\ uptime = 0 => rps.num = 0
       /\ uptime > 0 => rps.num * uptime = total * rps.den

C11_Witness ==
  /\ \E b \in StatsBuilt :
       /\ UptimeOf(b.response) > 0
       /\ TotalOf(b.response) = 2
       /\ RpsOf(b.response).num = 2 * UptimeOf(b.response) * RpsOf(b.response).den
  /\ \E b \in StatsBuilt :
       /\ UptimeOf(b.response) = 0
       /\ TotalOf(b.response) >= 1
       /\ RpsOf(b.response).num = 0

HeaderValues(response, name) ==
  { response.headers[i][2] :
      i \in { j \in 1..Len(response.headers) : response.headers[j][1] = name } }

\* C12: every response built, whatever its route and its status, has the
\* header Content-Type: application/json and the header Server:
\* rust-http-server/1.0.
C12_HeadersOnEveryResponse ==
  \A b \in Built :
    /\ HeaderValues(b.response, "Content-Type") =
         { <<"a", "p", "p", "l", "i", "c", "a", "t", "i", "o", "n", "/",
             "j", "s", "o", "n">> }
    /\ HeaderValues(b.response, "Server") =
         { <<"r", "u", "s", "t", "-", "h", "t", "t", "p", "-", "s", "e", "r",
             "v", "e", "r", "/", "1", ".", "0">> }

C12_Witness ==
  \E b \in Built :
    /\ b.response.status = 404
    /\ HeaderValues(b.response, "Server") = {ServerName}
    /\ HeaderValues(b.response, "Content-Type") = {JsonContentType}

RuleHandlers == <<"root", "health", "stats", "echo">>

RuleHolds(k, method, path) ==
  CASE k = 1 -> RuleRoot(method, path)
    [] k = 2 -> RuleHealth(method, path)
    [] k = 3 -> RuleStats(method, path)
    [] k = 4 -> RuleEcho(method, path)

\* The orders the four rules can be tried in.
RuleOrders ==
  { o \in [1..4 -> 1..4] : \A i, j \in 1..4 : o[i] = o[j] => i = j }

\* The handler selected when the rules are tried in the order o.
FirstMatch(o, method, path) ==
  IF \E i \in 1..4 : RuleHolds(o[i], method, path)
  THEN LET first == CHOOSE i \in 1..4 :
                      /\ RuleHolds(o[i], method, path)
                      /\ \A j \in 1..(i - 1) : ~RuleHolds(o[j], method, path)
       IN RuleHandlers[o[first]]
  ELSE "not_found"

\* C16: no request matches more than one of the four rules, so trying the
\* rules in any order selects the handler the code selected.
C16_RulesDisjoint ==
  \A c \in Conns :
    task[c].handler # "none" =>
      LET req == received[c][task[c].idx]
      IN /\ Cardinality({ k \in 1..4 : RuleHolds(k, req.method, req.path) }) <= 1
         /\ \A o \in RuleOrders :
              FirstMatch(o, req.method, req.path) = task[c].handler

C16_Witness ==
  \E c \in Conns :
    /\ task[c].handler = "echo"
    /\ received[c][task[c].idx] =
         Request("GET", <<"/", "e", "c", "h", "o", "/", "e", "c", "h", "o", "/">>)
    /\ FirstMatch([i \in 1..4 |-> 5 - i], "GET",
                  received[c][task[c].idx].path) = "echo"

\* C17: when handle_stats builds its body, the total_requests it reports is
\* at least the value the request's own increment gave the counter (1 plus
\* the increments before it) and at most the increments made so far; it is
\* at least 1 and at most the number of requests dispatched.
C17_StatsTotalBounds ==
  [][\A c \in Conns :
       (task[c].pc = "stats_total" /\ task'[c].pc = "respond") =>
         LET reported == TotalOf(task'[c].response)
         IN /\ reported >= task[c].ticket
            /\ task[c].ticket >= 1
            /\ reported <= total_requests
            /\ reported >= 1
            /\ reported <= NumDispatched]_vars

C17_Witness ==
  \E c \in Conns :
    /\ task[c].pc = "respond"
    /\ task[c].handler = "stats"
    /\ task[c].ticket = 1
    /\ TotalOf(task[c].response) = 2

\* The numbers of the "Request #n" lines printed so far.
PrintedNumbers ==
  UNION { { printed[c][i].n : i \in 1..Len(printed[c]) } : c \in Conns }

NumPrinted == SumOver([c \in Conns |-> Len(printed[c])], Conns)

\* C19: the number a request prints is the value its own increment gave the
\* counter, so no two requests print the same number, and once N requests
\* have completed the numbers printed are exactly 1..N.
C19_PrintedNumberIsOwnIncrement ==
  /\ \A c \in Conns :
       task[c].pc \in {"route", "stats_total", "respond"} =>
         printed[c][Len(printed[c])].n = task[c].ticket
  /\ Cardinality(PrintedNumbers) = NumPrinted
  /\ AllCompleted => PrintedNumbers = 1..NumDispatched

\* C18: a step changes total_requests only by starting a handle_request call,
\* which adds 1; accepting, receiving, logging, routing, building, writing,
\* closing, failing and shutting down leave it unchanged; no step changes
\* start_time.
C18_OnlyIncrementChangesCounter ==
  [][ /\ start_time' = start_time
      /\ total_requests' # total_requests =>
           /\ total_requests' = total_requests + 1
           /\ \E c \in Conns :
                /\ task[c].pc = "idle"
                /\ task'[c].pc = "log"
                /\ Len(dispatched'[c]) = Len(dispatched[c]) + 1 ]_vars

C18_Witness ==
  /\ total_requests = 1
  /\ start_time = 0
  /\ \E c \in Conns :
       /\ connState[c] = "failed"
       /\ Len(received[c]) = 1
       /\ Len(dispatched[c]) = 0
  /\ \E d \in Conns : Len(written[d]) = 1 /\ Len(printed[d]) = 1

\* C15: while the accept loop runs, the next incoming connection can be
\* accepted whatever the connections accepted before are doing, and an open
\* connection with a request waiting can have it dispatched whatever the
\* other connections are doing.
C15_AcceptDoesNotWaitForConnections ==
  \A c \in Conns :
    /\ ( /\ acceptor = "accepting"
         /\ connState[c] = "none"
         /\ \A d \in Conns : d < c => connState[d] # "none" )
       => ENABLED Accept(c)
    /\ ( /\ acceptor = "accepting"
         /\ connState[c] = "open"
         /\ task[c].pc = "idle"
         /\ Len(dispatched[c]) < Len(received[c]) )
       => ENABLED Dispatch(c)

C15_Witness ==
  /\ acceptor = "accepting"
  /\ connState[1] = "open"
  /\ Len(received[1]) = 1
  /\ Len(written[1]) = 0
  /\ connState[2] = "open"
  /\ Len(written[2]) = 1

\* C13: every request handed to handle_request has exactly one response
\* written, or is still being served on its open connection, or is on a
\* connection that a transport failure ended.
C13_DispatchedRequestAnswered ==
  \A c \in Conns :
    \A i \in 1..Len(dispatched[c]) :
      LET answers == { j \in 1..Len(written[c]) :
                         written[c][j].idx = dispatched[c][i] }
      IN /\ Cardinality(answers) <= 1
         /\ \/ /\ Cardinality(answers) = 1
               /\ \A j \in answers : written[c][j].response.body # <<>>
            \/ /\ connState[c] = "open"
               /\ task[c].pc # "idle"
               /\ task[c].idx = dispatched[c][i]
            \/ connState[c] = "failed"

\* ------------------------------------- a failure inside json_response

\* A build whose panics abort: the process ends with the panicking task.
PanicAborts(c) ==
  /\ connState[c] = "open"
  /\ task[c].pc \in {"route", "stats_total"}
  /\ connState' = [d \in Conns |->
                     IF d = c THEN "panicked"
                     ELSE IF connState[d] = "open" THEN "aborted"
                     ELSE connState[d]]
  /\ task' = [d \in Conns |-> IdleTask]
  /\ acceptor' = "exited"
  /\ stderr' = Append(stderr, [kind |-> "panic", conn |-> c])
  /\ UNCHANGED << total_requests, start_time, now, received, dispatched,
                  written, printed >>

\* json_response, lines 147-154: serde_json::to_string or the response
\* builder returns Err and `.unwrap()` panics. The call is the last of the
\* handler, reached from the match of handle_request (the four handlers
\* without statistics) or after handle_stats has read its two values. The
\* panic unwinds the future of the task spawned at line 178: the panic hook
\* writes to stderr, the runtime catches the unwinding at the task boundary,
\* the task ends without a response and its connection is dropped. The
\* clock stays at its last reading.
Panic(c) ==
  /\ connState[c] = "open"
  /\ task[c].pc \in {"route", "stats_total"}
  /\ connState' = [connState EXCEPT ![c] = "panicked"]
  /\ task' = [task EXCEPT ![c] = IdleTask]
  /\ stderr' = Append(stderr, [kind |-> "panic", conn |-> c])
  /\ UNCHANGED << total_requests, start_time, now, acceptor, received,
                  dispatched, written, printed >>

\* The server while listener.accept() meets no error: every step of a
\* connection's task, and the failure inside json_response.
NextPanic ==
  \/ \E c \in Conns : Accept(c)
  \/ \E c \in Conns : \E r \in ClientRequests : Receive(c, r)
  \/ \E c \in Conns : Dispatch(c)
  \/ \E c \in Conns : LogRequest(c)
  \/ \E c \in Conns : \E t \in 0..MaxTicks : Route(c, t)
  \/ \E c \in Conns : StatsTotal(c)
  \/ \E c \in Conns : Write(c)
  \/ \E c \in Conns : ConnFail(c)
  \/ \E c \in Conns : ConnClose(c)
  \/ \E c \in Conns : Panic(c)

SpecPanic == Init /\ [][NextPanic]_vars

\* C14: a step in which json_response fails on one connection ends that
\* connection only: the accept loop, the counter and every other connection
\* are as they were. While accept meets no error the process never exits,
\* whatever fails inside json_response; after such a failure the accept loop
\* can still take the next connection and another connection can still have
\* its waiting request dispatched.
C14_PanicConfined ==
  /\ [](acceptor = "accepting")
  /\ [][\A c \in Conns :
          (connState[c] = "open" /\ connState'[c] = "panicked") =>
            /\ acceptor' = acceptor
            /\ total_requests' = total_requests
            /\ \A d \in Conns \ {c} :
                 /\ connState'[d] = connState[d]
                 /\ received'[d] = received[d]
                 /\ dispatched'[d] = dispatched[d]
                 /\ task'[d] = task[d]
                 /\ written'[d] = written[d]
                 /\ printed'[d] = printed[d]]_vars
  /\ [](\A c, d \in Conns :
          (connState[c] = "panicked" /\ acceptor = "accepting") =>
            /\ ( /\ connState[d] = "open"
                 /\ task[d].pc = "idle"
                 /\ Len(dispatched[d]) < Len(received[d]) )
               => ENABLED Dispatch(d)
            /\ ( /\ connState[d] = "none"
                 /\ \A e \in Conns : e < d => connState[e] # "none" )
               => ENABLED Accept(d))

C14_Witness ==
  \E c, d \in Conns :
    /\ connState[c] = "panicked"
    /\ \E i \in 1..Len(stderr) : stderr[i] = [kind |-> "panic", conn |-> c]
    /\ connState[d] = "open"
    /\ Len(written[d]) >= 1
    /\ acceptor = "accepting"

====
